---- MODULE Spec2Model ----
(***************************************************************************)
(* Model of packages/server/src/db.ts: the database connection lifecycle   *)
(* (waitForConnection, connectDb, connectionCheck, latestMigration), the   *)
(* schema reset operations (dropTables, truncateTables) and the error      *)
(* classifier isNoSuchTableError.                                          *)
(*                                                                         *)
(* Strings that the code inspects with String.includes are sequences of    *)
(* tokens; includes is the contiguous-subsequence test on them.            *)
(***************************************************************************)
EXTENDS Integers, Sequences, FiniteSets, TLC

VARIABLES
    \* ---- the backend (the database the knex instance talks to)
    client,       \* dbConfig.client
    mode,         \* "down" | "starting" | "up": what the backend answers
    existing,     \* set of table names that exist
    nonEmpty,     \* subset of existing: tables holding at least one row
    migrations,   \* rows of knex_migrations: set of [id, name]
    \* ---- one call of dropTables / truncateTables / migrateDb / connectionCheck
    op,           \* name of the running or last call, "none" before the first
    idx,          \* position of the for loop in allTableNames()
    status,       \* "idle" | "running" | "ok" | "raised"
    raised,       \* the error value the call threw (NullErr if none)
    check,        \* the last ConnectionCheckResult produced
    hist,         \* bookkeeping on the calls, for the properties
    \* ---- waitForConnection
    pc,           \* position in waitForConnection
    now,          \* Date.now(), ms
    startTime,    \* const startTime
    lastError,    \* let lastError
    handles,      \* connections opened by connectDb and not destroyed
    opened,       \* number of connectDb calls that returned a connection
    thrown,       \* message of the Error thrown by waitForConnection
    whist,        \* bookkeeping on the attempts, for the properties
    \* ---- isNoSuchTableError applied to a given value
    errIn,        \* the argument (val) and how it was built (pgCode, text)
    classified,   \* "pending" | "true" | "false"
    \* ---- makeKnexConfig
    dbConfig,     \* the DatabaseConfig of the server
    knexConfig,   \* the last KnexDatabaseConfig made from it
    cfgHist       \* bookkeeping on the calls of makeKnexConfig

vars == <<client, mode, existing, nonEmpty, migrations, op, idx, status, raised,
          check, hist, pc, now, startTime, lastError, handles, opened,
          thrown, whist, errIn, classified, dbConfig, knexConfig, cfgHist>>

dbVars   == <<client, mode, existing, nonEmpty, migrations>>
opVars   == <<op, idx, status, raised, hist>>
waitVars == <<pc, now, startTime, lastError, handles, opened, thrown, whist>>
clsVars  == <<errIn, classified>>
cfgVars  == <<dbConfig, knexConfig, cfgHist>>

(***************************************************************************)
(* databaseSchema and allTableNames                                        *)
(***************************************************************************)
databaseSchemaKeys ==
    <<"users", "sessions", "permissions", "files", "changes", "api_clients",
      "notifications", "shares", "share_users", "joplin_file_contents">>

\* a catalog that pushes the same bookkeeping table twice
allTableNames_NoBookkeeping == databaseSchemaKeys

allTableNames_Dup == databaseSchemaKeys \o <<"knex_migrations", "knex_migrations">>

allTableNames == databaseSchemaKeys \o <<"knex_migrations", "knex_migrations_lock">>

Range(s) == {s[i] : i \in DOMAIN s}

Catalog == Range(allTableNames)

(***************************************************************************)
(* Error values.  nil models null/undefined; code "" an absent code;       *)
(* message <<>> an absent or empty (falsy) message.                        *)
(***************************************************************************)
NullErr == [nil |-> TRUE, code |-> "", message |-> <<>>]

Err(c, m) == [nil |-> FALSE, code |-> c, message |-> m]

\* a table name as the tokens of its text
NameTokens(t) ==
    IF t = "knex_migrations_lock" THEN <<"knex_migrations", "_lock">> ELSE <<t>>

\* String.prototype.includes
Includes(msg, needle) ==
    \E i \in 1..(Len(msg) - Len(needle) + 1) :
        SubSeq(msg, i, i + Len(needle) - 1) = needle

NoSuchTableText == <<"no such table: ", "knex_migrations">>

PgUndefinedTable == "42P01"

isNoSuchTableError_PgOnly(error) ==
    /\ ~error.nil
    /\ error.code = PgUndefinedTable

isNoSuchTableError_AnyNoSuchTable(error) ==
    /\ ~error.nil
    /\ \/ error.code = PgUndefinedTable
       \/ /\ error.message # <<>>
          /\ Includes(error.message, <<"no such table: ">>)

isNoSuchTableError(error) ==
    /\ ~error.nil
    /\ \/ error.code = PgUndefinedTable
       \/ /\ error.message # <<>>
          /\ Includes(error.message, NoSuchTableText)

(***************************************************************************)
(* Bounds of the model                                                     *)
(***************************************************************************)
MaxPresent == 1    \* Init: any database holding at most this many catalog tables
MaxFaults  == 1    \* statements the backend fails for another reason
MaxFlaps   == 2    \* changes of the backend's mode during waitForConnection
MaxLags    == 2    \* times an attempt of waitForConnection takes LagMs
LagMs      == 1500 \* the time such an attempt takes, ms
MaxMakes   == 2    \* calls of makeKnexConfig on one configuration

(***************************************************************************)
(* The backend: what a statement sent through knex answers.  cause is the  *)
(* actual condition behind the answer; the code never reads it.            *)
(***************************************************************************)
SupportedClients == {"sqlite3", "pg"}

\* the missing-table error of each backend, for the statement sql on table t
NoSuchTableErr(c, sql, t) ==
    IF c = "sqlite3"
    THEN Err("SQLITE_ERROR",
             <<sql>> \o NameTokens(t) \o <<" - SQLITE_ERROR: ", "no such table: ">>
                 \o NameTokens(t))
    ELSE Err(PgUndefinedTable,
             <<sql>> \o NameTokens(t) \o <<" - relation ">> \o NameTokens(t)
                 \o <<" does not exist">>)

\* a failure that is not the missing-table condition
OtherErr(c, sql, t) ==
    IF c = "sqlite3"
    THEN Err("SQLITE_BUSY",
             <<sql>> \o NameTokens(t) \o <<" - SQLITE_BUSY: database is locked">>)
    ELSE Err("42501",
             <<sql>> \o NameTokens(t) \o <<" - permission denied for table ">>
                 \o NameTokens(t))

\* the backend cannot be reached at all
DownErr(c) ==
    IF c = "sqlite3"
    THEN Err("SQLITE_CANTOPEN", <<"SQLITE_CANTOPEN: unable to open database file">>)
    ELSE Err("ECONNREFUSED", <<"connect ECONNREFUSED">>)

\* the backend answers but refuses statements
StartingErr(c) ==
    IF c = "sqlite3"
    THEN Err("SQLITE_BUSY", <<"SQLITE_BUSY: database is locked">>)
    ELSE Err("57P03", <<"the database system is starting up">>)

\* a row of knex_migrations as select('name') returns it; found FALSE: undefined
NoRow == [found |-> FALSE, name |-> ""]

Answer(ok, err, cause) == [ok |-> ok, err |-> err, cause |-> cause, row |-> NoRow]

\* the answer to statement sql on table t; fault: the backend fails it
Exec(sql, t, fault) ==
    IF mode = "down" THEN Answer(FALSE, DownErr(client), "other")
    ELSE IF mode = "starting" THEN Answer(FALSE, StartingErr(client), "other")
    ELSE IF fault THEN Answer(FALSE, OtherErr(client, sql, t), "other")
    ELSE IF t \notin existing
         THEN Answer(FALSE, NoSuchTableErr(client, sql, t), "missing_table")
    ELSE Answer(TRUE, NullErr, "ok")

Faults == IF hist.faults < MaxFaults THEN BOOLEAN ELSE {FALSE}

RowsPresent(t) == IF t = "knex_migrations" THEN migrations # {} ELSE t \in nonEmpty

(***************************************************************************)
(* sqliteFilePath and makeKnexConfig.  An absent (undefined) field of a    *)
(* configuration is Undef; an absent filename is the empty text.           *)
(***************************************************************************)
Undef == "undefined"

NoFile == <<>>

SqliteDbDir == "pathUtils.dirname(__dirname)"

\* `${sqliteDbDir}/db-${name}.sqlite`
sqliteFilePath(name) == <<SqliteDbDir, "/db-", name, ".sqlite">>

\* const connection: DbConfigConnection = {};
EmptyConnection ==
    [filename |-> NoFile, database |-> Undef, host |-> Undef, port |-> Undef,
     user |-> Undef, password |-> Undef]

makeKnexConfig_CopiesAll(cfg) ==
    [client |-> cfg.client,
     useNullAsDefault |-> (cfg.client = "sqlite3"),
     asyncStackTraces |-> cfg.asyncStackTraces,
     connection |->
        [filename |-> sqliteFilePath(cfg.name), database |-> cfg.name,
         host |-> cfg.host, port |-> cfg.port, user |-> cfg.user,
         password |-> cfg.password]]

makeKnexConfig(cfg) ==
    [client |-> cfg.client,
     useNullAsDefault |-> (cfg.client = "sqlite3"),
     asyncStackTraces |-> cfg.asyncStackTraces,
     connection |->
        IF cfg.client = "sqlite3"
        THEN [EmptyConnection EXCEPT !.filename = sqliteFilePath(cfg.name)]
        ELSE [EmptyConnection EXCEPT !.database = cfg.name,
                                     !.host = cfg.host,
                                     !.port = cfg.port,
                                     !.user = cfg.user,
                                     !.password = cfg.password]]

\* no KnexDatabaseConfig made yet
NoKnexConfig ==
    [client |-> Undef, useNullAsDefault |-> FALSE, asyncStackTraces |-> FALSE,
     connection |-> EmptyConnection]

\* the configuration of the servers of Spec and SpecWait
ServerConfig(c) ==
    [client |-> c, name |-> "joplin", host |-> "localhost", port |-> "5432",
     user |-> "joplin", password |-> "joplin", asyncStackTraces |-> FALSE]

InitCfgHist == [calls |-> 0, first |-> NoKnexConfig]

InitCfg(c) ==
    /\ dbConfig = ServerConfig(c)
    /\ knexConfig = NoKnexConfig
    /\ cfgHist = InitCfgHist

(***************************************************************************)
(* Bookkeeping on the calls (read by the properties, never by the code)    *)
(***************************************************************************)
NoAnswer == Answer(TRUE, NullErr, "none")

Snapshot == [existing |-> existing, nonEmpty |-> nonEmpty, migrations |-> migrations]

\* a call of name o starts; repeats: it follows a call of the same operation
\* that completed without raising
Begin(o) ==
    [hist EXCEPT !.repeats = (op = o /\ status = "ok"),
                 !.pre = Snapshot,
                 !.observed = {},
                 !.attempted = <<>>,
                 !.answer = NoAnswer,
                 !.returned = NoRow]

\* the running call got answer a for table t
Saw(h, t, a, fault) ==
    [h EXCEPT !.faults = @ + (IF fault THEN 1 ELSE 0),
              !.observed = IF a.cause = "other" THEN @ \cup {a.err} ELSE @,
              !.attempted = Append(@, t),
              !.answer = a]

(***************************************************************************)
(* dropTables and truncateTables                                           *)
(***************************************************************************)
\* catch (error) { if (isNoSuchTableError(error)) continue; throw error; }
ResetCatch_SwallowAll(error) == "continue"

ResetCatch(error) == IF isNoSuchTableError(error) THEN "continue" ELSE "throw"

CanCall == pc = "idle" /\ status # "running"

StartCall(o) ==
    /\ CanCall
    /\ op' = o
    /\ idx' = 1
    /\ status' = "running"
    /\ raised' = NullErr
    /\ hist' = Begin(o)

\* a loop that raises a new error value in place of the one it caught
LoopControl_Wraps(a) ==
    IF a.ok \/ ResetCatch(a.err) = "continue"
    THEN /\ idx' = idx + 1
         /\ status' = IF idx + 1 > Len(allTableNames) THEN "ok" ELSE "running"
         /\ raised' = NullErr
    ELSE /\ idx' = idx
         /\ status' = "raised"
         /\ raised' = Err(a.err.code, <<"reset failed">>)

\* the loop's control after the statement on allTableNames()[idx] answered a
LoopControl(a) ==
    IF a.ok \/ ResetCatch(a.err) = "continue"
    THEN /\ idx' = idx + 1
         /\ status' = IF idx + 1 > Len(allTableNames) THEN "ok" ELSE "running"
         /\ raised' = NullErr
    ELSE /\ idx' = idx
         /\ status' = "raised"
         /\ raised' = a.err

CallDropTables ==
    /\ StartCall("dropTables")
    /\ UNCHANGED <<dbVars, check, waitVars, clsVars, cfgVars>>

\* one iteration: await db.schema.dropTable(tableName)
DropTablesStep ==
    /\ op = "dropTables" /\ status = "running"
    /\ \E fault \in Faults :
         LET t == allTableNames[idx]
             a == Exec("drop table ", t, fault)
         IN /\ existing' = IF a.ok THEN existing \ {t} ELSE existing
            /\ nonEmpty' = IF a.ok THEN nonEmpty \ {t} ELSE nonEmpty
            /\ migrations' = IF a.ok /\ t = "knex_migrations" THEN {} ELSE migrations
            /\ LoopControl(a)
            /\ hist' = Saw(hist, t, a, fault)
    /\ UNCHANGED <<client, mode, op, check, waitVars, clsVars, cfgVars>>

CallTruncateTables ==
    /\ StartCall("truncateTables")
    /\ UNCHANGED <<dbVars, check, waitVars, clsVars, cfgVars>>

\* one iteration: await db(tableName).truncate()
TruncateTablesStep ==
    /\ op = "truncateTables" /\ status = "running"
    /\ \E fault \in Faults :
         LET t == allTableNames[idx]
             a == Exec("truncate ", t, fault)
         IN /\ nonEmpty' = IF a.ok THEN nonEmpty \ {t} ELSE nonEmpty
            /\ migrations' = IF a.ok /\ t = "knex_migrations" THEN {} ELSE migrations
            /\ LoopControl(a)
            /\ hist' = Saw(hist, t, a, fault)
    /\ UNCHANGED <<client, mode, existing, op, check, waitVars, clsVars, cfgVars>>

(***************************************************************************)
(* latestMigration and connectionCheck                                     *)
(***************************************************************************)
NullConn == 0    \* connection: null

\* .orderBy('id', 'desc').first()
FirstById_Desc(rows) ==
    IF rows = {} THEN NoRow
    ELSE [found |-> TRUE,
          name |-> (CHOOSE r \in rows : \A q \in rows : r.id >= q.id).name]

\* .orderBy('id', 'asc').first()
FirstById(rows) ==
    IF rows = {} THEN NoRow
    ELSE [found |-> TRUE,
          name |-> (CHOOSE r \in rows : \A q \in rows : r.id <= q.id).name]

\* db('knex_migrations').select('name').orderBy('id', 'asc').first()
SelectFirstMigration(fault) ==
    LET a == Exec("select name from ", "knex_migrations", fault)
    IN IF a.ok THEN [a EXCEPT !.row = FirstById(migrations)] ELSE a

Return(v) == [threw |-> FALSE, value |-> v, err |-> NullErr]
Throw(e)  == [threw |-> TRUE, value |-> NoRow, err |-> e]

latestMigration_NoCatch(q) ==
    IF q.ok THEN Return(q.row) ELSE Throw(q.err)

\* q: the answer of the query
latestMigration(q) ==
    IF q.ok THEN Return(q.row)
    ELSE IF isNoSuchTableError(q.err) THEN Return(NoRow)
    ELSE Throw(q.err)

connectionCheck_KeepsConnection(db, q) ==
    LET r == latestMigration(q)
    IN [latestMigration |-> r.value,
        isCreated |-> r.value.found,
        error |-> r.err,
        connection |-> db]

connectionCheck(db, q) ==
    LET r == latestMigration(q)
    IN IF ~r.threw
       THEN [latestMigration |-> r.value,
             isCreated |-> r.value.found,      \* !!result
             error |-> NullErr,
             connection |-> db]
       ELSE [latestMigration |-> NoRow,
             isCreated |-> FALSE,
             error |-> r.err,
             connection |-> NullConn]

NoCheck == [latestMigration |-> NoRow, isCreated |-> FALSE, error |-> NullErr,
            connection |-> NullConn]

\* the connection the calls below run on
TheDb == CHOOSE h \in handles : TRUE

CallLatestMigration ==
    /\ CanCall
    /\ \E fault \in Faults :
         LET q == SelectFirstMigration(fault)
             r == latestMigration(q)
         IN /\ op' = "latestMigration"
            /\ status' = IF r.threw THEN "raised" ELSE "ok"
            /\ raised' = r.err
            /\ hist' = [Saw(Begin("latestMigration"), "knex_migrations", q, fault)
                          EXCEPT !.returned = r.value]
    /\ UNCHANGED <<dbVars, idx, check, waitVars, clsVars, cfgVars>>

CallConnectionCheck ==
    /\ CanCall
    /\ \E fault \in Faults :
         LET q == SelectFirstMigration(fault)
         IN /\ check' = connectionCheck(TheDb, q)
            /\ hist' = Saw(Begin("connectionCheck"), "knex_migrations", q, fault)
    /\ op' = "connectionCheck"
    /\ status' = "ok"
    /\ raised' = NullErr
    /\ UNCHANGED <<dbVars, idx, waitVars, clsVars, cfgVars>>

(***************************************************************************)
(* migrateDb: db.migrate.latest with disableTransactions.  The migration   *)
(* units live in the migrations directory; each has a name and a forward   *)
(* action, here the creation of its tables.                                *)
(***************************************************************************)
MigrationList == <<"0001_init", "0002_next">>

MigrationTables(k) ==
    IF k = 1 THEN {databaseSchemaKeys[i] : i \in 1..5}
    ELSE {databaseSchemaKeys[i] : i \in 6..Len(databaseSchemaKeys)}

BookkeepingTables == {"knex_migrations", "knex_migrations_lock"}

AlreadyExistsErr(c, t) ==
    IF c = "sqlite3"
    THEN Err("SQLITE_ERROR",
             <<"create table ">> \o NameTokens(t) \o <<" - SQLITE_ERROR: table ">>
                 \o NameTokens(t) \o <<" already exists">>)
    ELSE Err("42P07",
             <<"create table ">> \o NameTokens(t) \o <<" - relation ">>
                 \o NameTokens(t) \o <<" already exists">>)

Applied == {r.name : r \in migrations}

Pending == {k \in 1..Len(MigrationList) : MigrationList[k] \notin Applied}

NextId == IF migrations = {} THEN 1
          ELSE 1 + (CHOOSE n \in {r.id : r \in migrations} :
                        \A r \in migrations : r.id <= n)

CallMigrateDb ==
    /\ StartCall("migrateDb")
    /\ UNCHANGED <<dbVars, check, waitVars, clsVars, cfgVars>>

\* a runner that undoes, on failure, what the call did before it
MigrateFails_Rollback(a, t, fault) ==
    /\ status' = "raised"
    /\ raised' = a.err
    /\ hist' = Saw(hist, t, a, fault)
    /\ existing' = hist.pre.existing
    /\ nonEmpty' = hist.pre.nonEmpty
    /\ migrations' = hist.pre.migrations
    /\ UNCHANGED idx

\* a migration (or the runner's own statement on table t) failed with
\* answer a: await db.migrate.latest(...) rejects, nothing is undone
MigrateFails(a, t, fault) ==
    /\ status' = "raised"
    /\ raised' = a.err
    /\ hist' = Saw(hist, t, a, fault)
    /\ UNCHANGED <<existing, nonEmpty, migrations, idx>>

\* what one migration step meets: the bookkeeping tables are created when
\* absent, then the first pending migration runs and is recorded
MigrateDbStep ==
    /\ op = "migrateDb" /\ status = "running"
    /\ \E fault \in Faults :
         IF fault
         THEN LET a == Answer(FALSE, OtherErr(client, "migrate ", "knex_migrations"), "other")
              IN MigrateFails(a, "knex_migrations", TRUE)
         ELSE IF ~(BookkeepingTables \subseteq existing)
         THEN /\ existing' = existing \cup BookkeepingTables
              /\ nonEmpty' = nonEmpty \cup {"knex_migrations_lock"}
              /\ UNCHANGED <<migrations, status, raised, idx, hist>>
         ELSE IF Pending = {}
         THEN /\ status' = "ok"
              /\ UNCHANGED <<existing, nonEmpty, migrations, raised, idx, hist>>
         ELSE LET k == CHOOSE j \in Pending : \A i \in Pending : j <= i
                  clash == MigrationTables(k) \cap existing
              IN IF clash # {}
                 THEN LET t == CHOOSE x \in clash : TRUE
                          a == Answer(FALSE, AlreadyExistsErr(client, t), "other")
                      IN MigrateFails(a, t, FALSE)
                 ELSE /\ existing' = existing \cup MigrationTables(k)
                      /\ migrations' = migrations \cup
                             {[id |-> NextId, name |-> MigrationList[k]]}
                      /\ idx' = idx + 1
                      /\ UNCHANGED <<nonEmpty, status, raised, hist>>
    /\ UNCHANGED <<client, mode, op, check, waitVars, clsVars, cfgVars>>

(***************************************************************************)
(* Spec: a connected server calling the operations on its database         *)
(***************************************************************************)
\* the databases a call can meet: the small ones, what creating the catalog
\* tables in order has reached (a prefix) and what dropping them in order
\* has left (a suffix)
InitExisting ==
    {S \in SUBSET Catalog : Cardinality(S) <= MaxPresent}
        \cup {Range(SubSeq(allTableNames, 1, k)) : k \in 0..Len(allTableNames)}
        \cup {Range(SubSeq(allTableNames, k, Len(allTableNames))) :
                  k \in 1..Len(allTableNames)}

\* a table of the same database that allTableNames() does not name
OutsideTables == {"schema_audit"}

\* the rows knex_migrations can hold: the first k migrations, ids ascending
AppliedPrefix(k) == {[id |-> i, name |-> MigrationList[i]] : i \in 1..k}

Placeholder == Err("", <<>>)    \* let lastError = { message: '' }

InitWhist ==
    [attempts |-> 0, lags |-> 0, flaps |-> 0, conn |-> NullConn,
     lastFailure |-> NullErr, firstFailed |-> FALSE, everUp |-> FALSE,
     upEarly |-> FALSE]

InitWaitIdle ==
    /\ pc = "idle"
    /\ now = 0
    /\ startTime = 0
    /\ lastError = NullErr
    /\ thrown = <<>>
    /\ whist = InitWhist

NoInput == [val |-> NullErr, pgCode |-> FALSE, text |-> FALSE]

InitClsIdle ==
    /\ errIn = NoInput
    /\ classified = "pending"

InitHist ==
    [faults |-> 0, repeats |-> FALSE, pre |-> Snapshot,
     observed |-> {}, attempted |-> <<>>, answer |-> NoAnswer, returned |-> NoRow]

InitOps ==
    /\ op = "none"
    /\ idx = 1
    /\ status = "idle"
    /\ raised = NullErr
    /\ check = NoCheck
    /\ hist = InitHist

Init ==
    /\ client \in SupportedClients
    /\ mode = "up"
    /\ existing \in {S \cup OutsideTables : S \in InitExisting}
    /\ nonEmpty \in {OutsideTables, existing \ {"knex_migrations"}}
    /\ migrations \in IF "knex_migrations" \in existing
                      THEN {AppliedPrefix(k) : k \in 0..Len(MigrationList)}
                      ELSE {{}}
    /\ handles = {1}
    /\ opened = 1
    /\ InitOps
    /\ InitWaitIdle
    /\ InitClsIdle
    /\ InitCfg(client)

Next ==
    \/ CallDropTables
    \/ DropTablesStep
    \/ CallTruncateTables
    \/ TruncateTablesStep
    \/ CallLatestMigration
    \/ CallConnectionCheck
    \/ CallMigrateDb
    \/ MigrateDbStep

Spec == Init /\ [][Next]_vars

(***************************************************************************)
(* waitForConnection                                                       *)
(***************************************************************************)
Timeout == 30000    \* const timeout
Backoff == 1000     \* time.msleep(1000)

Clients == SupportedClients \cup {"oracle9"}

\* require('knex')(config) with a client knex has no dialect for
UnsupportedErr(c) == Err("MODULE_NOT_FOUND", <<"Cannot find module ./dialects/", c>>)

TimeoutMessage(e) ==
    <<"Timeout trying to connect to database. Last error was: ">> \o e.message

Elapsed == now - startTime

DeadlinePassed_AtTimeout == Elapsed >= Timeout

DeadlinePassed_TwiceTimeout == Elapsed > 2 * Timeout

\* if (Date.now() - startTime > timeout)
DeadlinePassed == Elapsed > Timeout

Caught_KeepFirst(error) == IF lastError = Placeholder THEN error ELSE lastError

\* catch (error) { ...; lastError = error; }
Caught(error) == error

\* const startTime = Date.now(); let lastError = { message: '' };
WfcStart ==
    /\ pc = "start"
    /\ startTime' = now
    /\ lastError' = Placeholder
    /\ pc' = "connect"
    /\ UNCHANGED <<dbVars, opVars, check, now, handles, opened, thrown, whist,
                   clsVars, cfgVars>>

\* require('knex')(makeKnexConfig(dbConfig)): the knex instance, or the
\* error knex throws when it has no dialect for the client
connectDb(cfg) ==
    LET k == makeKnexConfig(cfg)
    IN [config |-> k,
        threw |-> k.client \notin SupportedClients,
        err |-> IF k.client \in SupportedClients THEN NullErr
                ELSE UnsupportedErr(k.client)]

\* const connection = await connectDb(dbConfig);
WfcConnect ==
    /\ pc = "connect"
    /\ LET c == connectDb(dbConfig)
       IN /\ knexConfig' = c.config
          /\ IF ~c.threw
             THEN /\ opened' = opened + 1
                  /\ handles' = handles \cup {opened + 1}
                  /\ pc' = "probe"
                  /\ whist' = [whist EXCEPT !.attempts = @ + 1,
                                            !.conn = opened + 1]
                  /\ UNCHANGED lastError
             ELSE /\ lastError' = Caught(c.err)
                  /\ pc' = "deadline"
                  /\ whist' = [whist EXCEPT !.attempts = @ + 1,
                                            !.conn = NullConn,
                                            !.lastFailure = c.err,
                                            !.firstFailed = @ \/ whist.attempts = 0]
                  /\ UNCHANGED <<opened, handles>>
    /\ UNCHANGED <<dbVars, opVars, check, now, startTime, thrown, clsVars, dbConfig,
                   cfgHist>>

\* const check = await connectionCheck(connection);
\* if (check.error) throw check.error; return check;
WfcProbe ==
    /\ pc = "probe"
    /\ LET q == SelectFirstMigration(FALSE)
           c == connectionCheck(whist.conn, q)
       IN /\ check' = c
          /\ IF ~c.error.nil
             THEN /\ lastError' = Caught(c.error)
                  /\ pc' = "deadline"
                  /\ whist' = [whist EXCEPT !.lastFailure = q.err,
                                            !.firstFailed = @ \/ whist.attempts = 1]
             ELSE /\ pc' = "returned"
                  /\ UNCHANGED <<lastError, whist>>
    /\ UNCHANGED <<dbVars, opVars, now, startTime, handles, opened, thrown, clsVars, cfgVars>>

\* the deadline check after a failed attempt
WfcDeadline ==
    /\ pc = "deadline"
    /\ IF DeadlinePassed
       THEN /\ thrown' = TimeoutMessage(lastError)
            /\ pc' = "thrown"
       ELSE /\ pc' = "sleep"
            /\ UNCHANGED thrown
    /\ UNCHANGED <<dbVars, opVars, check, now, startTime, lastError, handles,
                   opened, whist, clsVars, cfgVars>>

\* a pause that grows with the number of attempts made
WfcSleep_Growing ==
    /\ pc = "sleep"
    /\ now' = now + Backoff * whist.attempts
    /\ pc' = "connect"
    /\ UNCHANGED <<dbVars, opVars, check, startTime, lastError, handles, opened,
                   thrown, whist, clsVars, cfgVars>>

\* await time.msleep(1000);
WfcSleep ==
    /\ pc = "sleep"
    /\ now' = now + Backoff
    /\ pc' = "connect"
    /\ UNCHANGED <<dbVars, opVars, check, startTime, lastError, handles, opened,
                   thrown, whist, clsVars, cfgVars>>

\* an attempt takes time: opening the connection, the query, or its failure
Lag ==
    /\ pc \in {"connect", "probe", "deadline"}
    /\ whist.lags < MaxLags
    /\ now' = now + LagMs
    /\ whist' = [whist EXCEPT !.lags = @ + 1]
    /\ UNCHANGED <<dbVars, opVars, check, pc, startTime, lastError, handles,
                   opened, thrown, clsVars, cfgVars>>

\* the backend starts, stops, or begins to accept statements
BackendChange ==
    /\ pc \in {"start", "connect", "probe", "deadline", "sleep"}
    /\ whist.flaps < MaxFlaps
    /\ \E m \in {"down", "starting", "up"} \ {mode} :
         /\ mode' = m
         /\ whist' = [whist EXCEPT !.flaps = @ + 1,
                                   !.everUp = @ \/ m = "up",
                                   !.upEarly = (m = "up" /\ Elapsed < Timeout)]
    /\ UNCHANGED <<client, existing, nonEmpty, migrations, opVars, check, pc, now,
                   startTime, lastError, handles, opened, thrown, clsVars, cfgVars>>

InitWait ==
    /\ client \in Clients
    /\ mode \in {"down", "starting", "up"}
    /\ \E k \in 0..1 :
         /\ migrations = AppliedPrefix(k)
         /\ existing \in IF k = 0 THEN {{}, BookkeepingTables}
                         ELSE {BookkeepingTables \cup MigrationTables(1)}
    /\ nonEmpty = {}
    /\ handles = {}
    /\ opened = 0
    /\ InitOps
    /\ pc = "start"
    /\ now = 0
    /\ startTime = 0
    /\ lastError = NullErr
    /\ thrown = <<>>
    /\ whist = [InitWhist EXCEPT !.everUp = (mode = "up"), !.upEarly = (mode = "up")]
    /\ InitClsIdle
    /\ InitCfg(client)

WfcStep == WfcStart \/ WfcConnect \/ WfcProbe \/ WfcDeadline \/ WfcSleep

NextWait ==
    \/ WfcStart
    \/ WfcConnect
    \/ WfcProbe
    \/ WfcDeadline
    \/ WfcSleep
    \/ Lag
    \/ BackendChange

SpecWait == InitWait /\ [][NextWait]_vars

\* the attempts are awaited one after the other: a step that can be taken is taken
SpecWaitFair == SpecWait /\ WF_vars(WfcStep)

(***************************************************************************)
(* SpecServer: a server that is either waiting for its connection or       *)
(* connected and calling the operations                                    *)
(***************************************************************************)
InitServer == Init \/ InitWait

NextServer == Next \/ NextWait

SpecServer == InitServer /\ [][NextServer]_vars

(***************************************************************************)
(* SpecClassify: isNoSuchTableError applied to an error value.  The values *)
(* are built from their parts, so that how each was built is known:        *)
(* pgCode, its code is the Postgres undefined_table code; text, its        *)
(* message was built around 'no such table: knex_migrations'.              *)
(***************************************************************************)
ErrCodes == {"", PgUndefinedTable, "42P07", "42501", "SQLITE_ERROR"}

MsgPrefixes ==
    {<<>>,
     <<"select name from ", "knex_migrations", " - SQLITE_ERROR: ">>,
     <<"drop table ", "users", " - SQLITE_ERROR: ">>}

MsgSuffixes == {<<>>, <<" (SQLITE_ERROR)">>}

MsgWithText ==
    {<<"no such table: ", "knex_migrations">>,
     <<"no such table: ", "knex_migrations", "_lock">>}

MsgWithoutText ==
    {<<>>,
     <<"no such table: ">>,
     <<"no such table: ", "users">>,
     <<"no such table: ", "sessions">>,
     <<"knex_migrations">>,
     <<"knex_migrations", "no such table: ">>,
     <<"no such column: ", "knex_migrations">>,
     <<"relation ", "knex_migrations", " does not exist">>}

BuiltErrors ==
    {[val |-> Err(c, pre \o mid \o suf), pgCode |-> (c = PgUndefinedTable),
      text |-> (mid \in MsgWithText)] :
        c \in ErrCodes, pre \in MsgPrefixes,
        mid \in MsgWithText \cup MsgWithoutText, suf \in MsgSuffixes}

\* what the backends answer for a statement on a missing table
BackendErrors ==
    {[val |-> NoSuchTableErr(c, sql, t), pgCode |-> (c = "pg"),
      text |-> (c = "sqlite3" /\ t \in BookkeepingTables)] :
        c \in SupportedClients, sql \in {"drop table ", "truncate "}, t \in Catalog}

ErrorInputs == BuiltErrors \cup BackendErrors \cup {NoInput}

InitClassify ==
    /\ errIn \in ErrorInputs
    /\ classified = "pending"
    /\ client = "pg"
    /\ mode = "up"
    /\ existing = {}
    /\ nonEmpty = {}
    /\ migrations = {}
    /\ handles = {}
    /\ opened = 0
    /\ InitOps
    /\ InitWaitIdle
    /\ InitCfg(client)

Classify ==
    /\ classified = "pending"
    /\ classified' = IF isNoSuchTableError(errIn.val) THEN "true" ELSE "false"
    /\ UNCHANGED <<dbVars, opVars, check, waitVars, errIn, cfgVars>>

NextClassify == Classify

SpecClassify == InitClassify /\ [][NextClassify]_vars

(***************************************************************************)
(* SpecConfig: makeKnexConfig called on a configuration                    *)
(***************************************************************************)
Configs ==
    [client : Clients, name : {"joplin", "test"}, host : {Undef, "localhost"},
     port : {Undef, "5432"}, user : {Undef, "joplin"},
     password : {Undef, "secret"}, asyncStackTraces : BOOLEAN]

InitConfig ==
    /\ dbConfig \in Configs
    /\ knexConfig = NoKnexConfig
    /\ cfgHist = InitCfgHist
    /\ client = dbConfig.client
    /\ mode = "up"
    /\ existing = {}
    /\ nonEmpty = {}
    /\ migrations = {}
    /\ handles = {}
    /\ opened = 0
    /\ InitOps
    /\ InitWaitIdle
    /\ InitClsIdle

CallMakeKnexConfig ==
    /\ cfgHist.calls < MaxMakes
    /\ knexConfig' = makeKnexConfig(dbConfig)
    /\ cfgHist' = [calls |-> cfgHist.calls + 1,
                   first |-> IF cfgHist.calls = 0 THEN makeKnexConfig(dbConfig)
                             ELSE cfgHist.first]
    /\ UNCHANGED <<dbVars, opVars, check, waitVars, clsVars, dbConfig>>

NextConfig == CallMakeKnexConfig

SpecConfig == InitConfig /\ [][NextConfig]_vars

(***************************************************************************)
(* Properties                                                              *)
(***************************************************************************)
ResetOps == {"dropTables", "truncateTables"}

\* C1: a call of dropTables or truncateTables that directly follows a
\* completed call of the same operation on the same database, the backend
\* failing no statement for another reason, does not raise, on sqlite3 and
\* on Postgres alike.
C1_TwiceInARowNeverRaises ==
    (op \in ResetOps /\ hist.repeats /\ hist.observed = {}) => status # "raised"

\* C2: at most one connection opened by waitForConnection is open at any
\* time: a failed attempt's connection is closed before the next is opened.
C2_AtMostOneOpenConnection == Cardinality(handles) <= 1

\* the backend was unreachable at the first attempt, became reachable less
\* than the timeout after the start, and has stayed reachable since
UpInTime ==
    /\ client \in SupportedClients
    /\ whist.firstFailed
    /\ mode = "up"
    /\ whist.upEarly

BookkeepingHasRecord == "knex_migrations" \in existing /\ migrations # {}

\* C3 as stated: a backend unreachable at the first attempt that becomes
\* reachable within the timeout and stays so makes waitForConnection return
\* a result, never throw.
C3_ReachableInTimeNeverThrows == UpInTime => pc # "thrown"

\* C3 as amended: the same, provided the attempts take negligible time;
\* then waitForConnection does not throw, eventually returns, has made at
\* least one retry, and isCreated tells whether knex_migrations holds a record.
C3_ReachableInTimeReturns ==
    /\ []((UpInTime /\ whist.lags = 0) => pc # "thrown")
    /\ []((UpInTime /\ whist.lags = 0)
            => <>(pc = "returned" \/ mode # "up" \/ whist.lags > 0))
    /\ []((UpInTime /\ pc = "returned")
            => (whist.attempts >= 2 /\ check.isCreated = BookkeepingHasRecord))

C3_Witness ==
    UpInTime /\ whist.lags = 0 /\ pc = "returned" /\ whist.attempts >= 2
        /\ check.isCreated

\* C4: when the backend is never reachable, waitForConnection never returns
\* a result, and with attempts of negligible time it throws at an elapsed
\* time greater than the timeout and at most the timeout plus one backoff.
C4_NeverReachableTimesOut ==
    /\ ~whist.everUp => pc # "returned"
    /\ (~whist.everUp /\ pc = "thrown" /\ whist.lags = 0)
          => (Elapsed > Timeout /\ Elapsed <= Timeout + Backoff)

C4_Witness == ~whist.everUp /\ pc = "thrown" /\ whist.lags = 0

\* C5: the error thrown when waitForConnection gives up embeds the message
\* of the error of the most recent failed attempt, which is not empty.
C5_TimeoutCarriesLastError ==
    pc = "thrown" =>
        /\ ~whist.lastFailure.nil
        /\ whist.lastFailure.message # <<>>
        /\ thrown = TimeoutMessage(whist.lastFailure)

C5_Witness ==
    /\ pc = "thrown"
    /\ whist.flaps > 0
    /\ whist.lastFailure = StartingErr("pg")

\* C6: a result produced by connectionCheck has a connection iff it has no
\* error; the result waitForConnection returns has no error and carries the
\* connection of its attempt, still open.
C6_ConnectionIffNoError ==
    /\ check # NoCheck => ((check.connection # NullConn) <=> check.error.nil)
    /\ pc = "returned" =>
         /\ check.error.nil
         /\ check.connection = whist.conn
         /\ check.connection \in handles

C6_Witness == pc = "returned" /\ whist.firstFailed /\ check.connection # NullConn

\* C7: connectionCheck answers a missing knex_migrations table with
\* isCreated false and no error, a successful query with no error and
\* isCreated true exactly when a record exists, and any other failure with
\* that error and isCreated false; a fresh database gives isCreated false
\* and no error, a database with one applied migration isCreated true and
\* that migration's name.
C7_ProbeOutcomes ==
    op = "connectionCheck" =>
        LET a == hist.answer
        IN /\ a.cause = "missing_table" => (~check.isCreated /\ check.error.nil)
           /\ a.cause = "ok" =>
                 (check.error.nil /\ check.isCreated = (migrations # {}))
           /\ a.cause = "other" => (check.error = a.err /\ ~check.isCreated)
           /\ (existing \cap Catalog = {} /\ a.cause # "other") =>
                 (~check.isCreated /\ check.error.nil)
           /\ (a.cause = "ok" /\ migrations = AppliedPrefix(1)) =>
                 /\ check.isCreated
                 /\ check.latestMigration.found
                 /\ check.latestMigration.name = MigrationList[1]

C7_Witness ==
    /\ op = "connectionCheck"
    /\ client = "sqlite3"
    /\ hist.answer.cause = "missing_table"
    /\ existing \cap Catalog = {}

\* what C8 says of dropTables, truncateTables and latestMigration, and of
\* the error waitForConnection throws
SurfacedByCalls ==
    /\ (op \in ResetOps \cup {"latestMigration"} /\ status = "ok")
          => hist.observed = {}
    /\ (op \in ResetOps \cup {"latestMigration"} /\ status = "raised"
            /\ hist.observed # {})
          => raised \in hist.observed
    /\ pc = "thrown" => thrown = TimeoutMessage(whist.lastFailure)

\* C8 as stated: an operation that observed a failure other than the
\* missing-table condition does not complete successfully, waitForConnection
\* included.
C8_NeverCompletesAfterFailure ==
    /\ SurfacedByCalls
    /\ pc = "returned" => whist.lastFailure.nil

\* C8 as amended: dropTables, truncateTables and latestMigration throw the
\* failure they observed and do not complete; waitForConnection retries
\* after it and may then return a result; when it gives up, what it throws
\* carries the message of the last failure.
C8_SurfacedExceptRetried == SurfacedByCalls

C8_Witness ==
    /\ op = "truncateTables"
    /\ status = "raised"
    /\ hist.observed # {}
    /\ raised \in hist.observed

\* C9: truncateTables on a database holding only some catalog tables, the
\* backend failing no statement for another reason, completes without
\* error; the tables that existed are empty and no other table exists.
C9_TruncatePartialDatabase ==
    (/\ op = "truncateTables"
     /\ status \in {"ok", "raised"}
     /\ hist.observed = {}
     /\ hist.pre.existing \cap Catalog # {}
     /\ hist.pre.existing \cap Catalog # Catalog)
    => /\ status = "ok"
       /\ existing = hist.pre.existing
       /\ \A t \in existing \cap Catalog : ~RowsPresent(t)

\* C10: isNoSuchTableError is true of an error whose code is 42P01 and of
\* one whose message contains 'no such table: knex_migrations', and false
\* of every other value: null, another code, a 'no such table' message
\* naming another table.
C10_Classification ==
    classified # "pending" =>
        (classified = "true")
            <=> (~errIn.val.nil /\ (errIn.pgCode \/ errIn.text))

C10_Witness ==
    /\ classified = "false"
    /\ errIn.val.code = "SQLITE_ERROR"
    /\ Includes(errIn.val.message, <<"no such table: ", "users">>)

\* C11: a configuration whose client is not a supported kind is rejected:
\* no descriptor is made from it and waitForConnection does not try again
\* after the attempt that met it.
C11_UnsupportedKindRejected ==
    client \notin SupportedClients =>
        (knexConfig = NoKnexConfig /\ whist.attempts <= 1)

\* C12: every call of makeKnexConfig on a configuration gives the same
\* descriptor; for sqlite3 it holds the file path made from the database
\* name and nothing else, for the client-server kind the database, host,
\* port, user and password of the configuration and no file path.
C12_DescriptorOfConfig ==
    cfgHist.calls > 0 =>
        /\ knexConfig = cfgHist.first
        /\ knexConfig.client = dbConfig.client
        /\ dbConfig.client = "sqlite3" =>
             knexConfig.connection =
                 [filename |-> <<SqliteDbDir, "/db-", dbConfig.name, ".sqlite">>,
                  database |-> Undef, host |-> Undef, port |-> Undef,
                  user |-> Undef, password |-> Undef]
        /\ dbConfig.client = "pg" =>
             knexConfig.connection =
                 [filename |-> NoFile, database |-> dbConfig.name,
                  host |-> dbConfig.host, port |-> dbConfig.port,
                  user |-> dbConfig.user, password |-> dbConfig.password]

C12_Witness ==
    /\ cfgHist.calls = MaxMakes
    /\ dbConfig.client = "sqlite3"
    /\ dbConfig.host # Undef
    /\ knexConfig.connection.host = Undef

\* the tables the loop of a reset operation passed before position i
Before(i) == {allTableNames[j] : j \in 1..(i - 1)}

\* the tables at position i and after it
From(i) == {allTableNames[j] : j \in i..Len(allTableNames)}

\* C13: when a statement of dropTables or truncateTables fails with an error
\* that is not the missing-table condition, the call raises that very error
\* at once: the failing table is the last one attempted, it and the tables
\* after it are as they were when the call began, and the tables before it
\* stay dropped (emptied, for truncateTables).
C13_FirstOtherErrorAborts ==
    (op \in ResetOps /\ hist.observed # {}) =>
        /\ status = "raised"
        /\ raised = hist.answer.err
        /\ hist.observed = {raised}
        /\ Len(hist.attempted) = idx
        /\ hist.attempted = SubSeq(allTableNames, 1, idx)
        /\ existing \cap From(idx) = hist.pre.existing \cap From(idx)
        /\ nonEmpty \cap From(idx) = hist.pre.nonEmpty \cap From(idx)
        /\ "knex_migrations" \in From(idx) => migrations = hist.pre.migrations
        /\ op = "dropTables" => existing \cap Before(idx) = {}
        /\ op = "truncateTables" =>
             /\ nonEmpty \cap Before(idx) = {}
             /\ existing = hist.pre.existing
        /\ "knex_migrations" \in Before(idx) => migrations = {}

C13_Witness ==
    /\ op = "dropTables" /\ status = "raised"
    /\ hist.observed # {}
    /\ hist.pre.existing \cap Before(idx) # {}
    /\ existing \cap Before(idx) = {}
    /\ existing \cap From(idx + 1) # {}

\* C14: whatever migrations are recorded, the record the probe's query
\* selects is the first applied one, and a latestMigration that found the
\* bookkeeping table holding records returns the name of that first
\* migration, also when later migrations are recorded after it.
C14_ReportsFirstApplied ==
    /\ migrations # {} => FirstById(migrations).name = MigrationList[1]
    /\ (/\ op = "latestMigration" /\ status = "ok"
        /\ hist.answer.ok
        /\ migrations # {})
         => (hist.returned.found /\ hist.returned.name = MigrationList[1])

C14_Witness ==
    /\ op = "latestMigration" /\ status = "ok"
    /\ hist.answer.ok
    /\ Cardinality(migrations) = Len(MigrationList)
    /\ hist.returned.name = MigrationList[1]

\* what C15 asks of one step of waitForConnection
PacedStep ==
    /\ pc' # pc =>
         \/ pc = "start" /\ pc' = "connect"
         \/ pc = "connect" /\ pc' \in {"probe", "deadline"}
         \/ pc = "probe" /\ pc' \in {"deadline", "returned"}
         \/ pc = "deadline" /\ pc' \in {"sleep", "thrown"}
         \/ pc = "sleep" /\ pc' = "connect"
    /\ whist'.attempts # whist.attempts =>
         (pc = "connect" /\ pc' # pc /\ whist'.attempts = whist.attempts + 1)
    /\ (pc = "sleep" /\ now' # now) =>
         (pc' = "connect" /\ now' = now + Backoff)
    /\ (pc = "sleep" /\ pc' = "connect") => now' = now + Backoff
    /\ (pc = "deadline" /\ pc' = "sleep") => now - startTime <= Timeout
    /\ (pc = "deadline" /\ pc' = "thrown") => now - startTime > Timeout

\* C15: an attempt is followed, when it fails, by one deadline check, then
\* one sleep of 1000 ms whatever the number of attempts made, then the next
\* attempt; an attempt starts only when the one before it has ended, and
\* the loop gives up only through the deadline check with more than the
\* timeout elapsed.
C15_AttemptCheckSleepAttempt == [][PacedStep]_vars

C15_Witness ==
    /\ pc = "connect"
    /\ whist.attempts = 31
    /\ Elapsed = 31 * Backoff

\* the position of a recorded migration in the migrations directory
Position(n) == CHOOSE k \in 1..Len(MigrationList) : MigrationList[k] = n

\* C16: the recorded migrations are always the first ones of the fixed
\* order, with ids ascending in that order; when migrateDb raises, it raises
\* the error of the one failure it met, everything recorded and created
\* before the call and by the migrations applied earlier in the call is
\* still there, and the failing migration and those after it are not
\* recorded.
C16_FailureKeepsEarlierMigrations ==
    /\ \A r \in migrations :
         /\ \A j \in 1..Position(r.name) : MigrationList[j] \in Applied
         /\ \A q \in migrations :
              (Position(q.name) < Position(r.name)) <=> (q.id < r.id)
    /\ (op = "migrateDb" /\ status = "raised") =>
         /\ raised = hist.answer.err
         /\ hist.observed = {raised}
         /\ Len(hist.attempted) = 1
         /\ hist.pre.migrations \subseteq migrations
         /\ hist.pre.existing \subseteq existing
         /\ Cardinality(migrations) = Cardinality(hist.pre.migrations) + idx - 1
         /\ \A r \in migrations : MigrationTables(Position(r.name)) \subseteq existing
               \/ r \in hist.pre.migrations
         /\ \A k \in Pending : \A j \in k..Len(MigrationList) : j \in Pending

C16_Witness ==
    /\ op = "migrateDb" /\ status = "raised"
    /\ idx = 2
    /\ hist.pre.migrations = {}
    /\ Applied = {MigrationList[1]}
    /\ MigrationTables(1) \subseteq existing
    /\ ~(MigrationTables(1) \subseteq hist.pre.existing)

\* C17: allTableNames holds no name twice, holds every key of
\* databaseSchema and both bookkeeping tables, and every call of dropTables
\* or truncateTables walks that same list: the tables it attempted so far
\* are the first ones of allTableNames, each once.
C17_CatalogWithoutDuplicates ==
    /\ \A i, j \in 1..Len(allTableNames) :
         allTableNames[i] = allTableNames[j] => i = j
    /\ Range(databaseSchemaKeys) \subseteq Range(allTableNames)
    /\ {"knex_migrations", "knex_migrations_lock"} \subseteq Range(allTableNames)
    /\ Len(allTableNames) = Len(databaseSchemaKeys) + 2
    /\ op \in ResetOps =>
         /\ Len(hist.attempted) <= Len(allTableNames)
         /\ \A i \in 1..Len(hist.attempted) : hist.attempted[i] = allTableNames[i]
         /\ Cardinality(Range(hist.attempted)) = Len(hist.attempted)

C17_Witness ==
    /\ op \in ResetOps /\ status = "ok"
    /\ hist.repeats
    /\ hist.attempted = allTableNames
    /\ Cardinality(Range(hist.attempted)) = Len(databaseSchemaKeys) + 2

\* C18: waitForConnection ends only after at least one attempt; it throws
\* only from the deadline check that follows a failed attempt, with more
\* than the timeout elapsed; an attempt whose probe succeeds makes it
\* return that result, also when more than the timeout has elapsed.
C18_ThrowsOnlyAfterLateFailure ==
    /\ pc \in {"probe", "deadline", "sleep", "returned", "thrown"} =>
         whist.attempts >= 1
    /\ pc \in {"deadline", "thrown"} =>
         (whist.conn = NullConn \/ ~check.error.nil)
    /\ pc = "thrown" =>
         /\ now - startTime > Timeout
         /\ lastError # Placeholder
         /\ thrown = TimeoutMessage(whist.lastFailure)
    /\ pc = "returned" =>
         /\ check.error.nil
         /\ check.connection = whist.conn
         /\ thrown = <<>>

C18_Witness ==
    /\ pc = "returned"
    /\ now - startTime > Timeout
    /\ whist.firstFailed
    /\ check.error.nil

\* C19: when every step of waitForConnection that can be taken is taken,
\* the call ends, by returning a result or by throwing the timeout error,
\* and it never makes more attempts than the timeout divided by the
\* backoff, plus two.
C19_TerminatesWithinBound ==
    /\ [](whist.attempts <= (Timeout \div Backoff) + 2)
    /\ <>(pc \in {"returned", "thrown"})

C19_Witness ==
    /\ pc = "thrown"
    /\ whist.attempts = (Timeout \div Backoff) + 2
    /\ thrown = TimeoutMessage(lastError)

\* C20: a dropTables that completed without raising attempted every table
\* of allTableNames once, in its order, the schema tables first and
\* knex_migrations then knex_migrations_lock last; no schema table and no
\* bookkeeping table exists after it, and the tables allTableNames does not
\* name are as they were, at every point of the call.
C20_DropTablesLeavesNoCatalogTable ==
    /\ op = "dropTables" =>
         /\ Range(hist.attempted) \subseteq Range(allTableNames)
         /\ existing \cap OutsideTables = hist.pre.existing \cap OutsideTables
         /\ nonEmpty \cap OutsideTables = hist.pre.nonEmpty \cap OutsideTables
    /\ (op = "dropTables" /\ status = "ok") =>
         /\ existing \cap (Range(databaseSchemaKeys) \cup BookkeepingTables) = {}
         /\ migrations = {}
         /\ hist.attempted = allTableNames
         /\ SubSeq(hist.attempted, 1, Len(databaseSchemaKeys)) = databaseSchemaKeys
         /\ hist.attempted[Len(hist.attempted) - 1] = "knex_migrations"
         /\ hist.attempted[Len(hist.attempted)] = "knex_migrations_lock"

C20_Witness ==
    /\ op = "dropTables" /\ status = "ok"
    /\ hist.pre.existing = Catalog \cup OutsideTables
    /\ existing = OutsideTables
    /\ nonEmpty = OutsideTables

====
